---- MODULE Spec2Model ----
(***************************************************************************)
(* generate_large_csv.py: a script that writes a CSV file of num_rows data *)
(* rows and num_cols columns, prints a message and writes a ".done" marker *)
(* file.  Text is modelled as sequences of one-character strings; a file   *)
(* is the bytes on disk plus the bytes still held in the handle's buffer.  *)
(***************************************************************************)
EXTENDS Integers, Sequences, FiniteSets

\* Bounds of the model: the configured sizes are drawn from 0..MaxRows and
\* 0..MaxCols, and the script is run at most MaxRuns times in succession.
MaxRows == 3
MaxCols == 2
MaxRuns == 2

VARIABLES
  num_rows,      \* line 4
  num_cols,      \* line 5
  os_linesep,    \* the platform's line separator (text mode of line 20)
  pc,            \* the statement the run is about to execute
  err,           \* "none", or the statement that raised
  row_num,       \* loop variable of line 13 (0 before the loop)
  row,           \* the list of line 14 (empty before the loop)
  csv_exists,    \* output_file exists on disk
  csv_disk,      \* bytes of output_file on disk
  csv_buf,       \* bytes written to csvfile and not yet flushed
  csvfile_open,  \* the handle of line 10 is open
  done_exists,   \* the marker file exists on disk
  done_disk,     \* bytes of the marker file on disk
  done_buf,      \* bytes written to donefile and not yet flushed
  donefile_open, \* the handle of line 20 is open
  stdout,        \* lines printed by the current run
  run,           \* number of the current run, 1..MaxRuns
  at_start       \* the marker file as the current run found it, and the
                 \* output file of the previous run if it ended normally

vars == <<num_rows, num_cols, os_linesep, pc, err, row_num, row, csv_exists,
          csv_disk, csv_buf, csvfile_open, done_exists, done_disk, done_buf,
          donefile_open, stdout, run, at_start>>

----------------------------------------------------------------------------
\* Text helpers

CR == "\r"
LF == "\n"

Digit(d) ==
  CASE d = 0 -> "0" [] d = 1 -> "1" [] d = 2 -> "2" [] d = 3 -> "3"
    [] d = 4 -> "4" [] d = 5 -> "5" [] d = 6 -> "6" [] d = 7 -> "7"
    [] d = 8 -> "8" [] d = 9 -> "9"

\* str(n) inside an f-string, n >= 0: decimal digits, most significant first
RECURSIVE Str(_)
Str(n) ==
  IF n < 10 THEN <<Digit(n)>> ELSE Str(n \div 10) \o <<Digit(n % 10)>>

\* f'col{i+1}' for i in range(num_cols); i is 0-based
ColName(i) == <<"c", "o", "l">> \o Str(i + 1)

\* columns = [f'col{i+1}' for i in range(num_cols)]
columns == [j \in 1..num_cols |-> ColName(j - 1)]

\* f'data_{col}_{row_num}'
\* (variant: row number and column index exchanged)
DataCellSwapped(col, r) ==
  <<"d", "a", "t", "a", "_">> \o Str(r) \o <<"_">> \o Str(col)
DataCell(col, r) ==
  <<"d", "a", "t", "a", "_">> \o Str(col) \o <<"_">> \o Str(r)

\* row = [f'data_{col}_{row_num}' for col in range(1, num_cols + 1)]
Row(r) == [col \in 1..num_cols |-> DataCell(col, r)]

\* f'{num_rows}_large_test.csv' and f'{output_file}.done'
output_file ==
  Str(num_rows) \o <<"_", "l", "a", "r", "g", "e", "_", "t", "e", "s", "t",
                     ".", "c", "s", "v">>
done_path == output_file \o <<".", "d", "o", "n", "e">>

\* the message of line 17, with the newline print() appends
Message ==
  <<"CSV file ", "\"">> \o output_file \o <<"\"", " with ">> \o Str(num_rows)
    \o <<" rows and ">> \o Str(num_cols)
    \o <<" columns generated successfully.", LF>>

----------------------------------------------------------------------------
\* csv.writer(csvfile) with the default dialect:
\* delimiter ',', quotechar '"', lineterminator '\r\n', QUOTE_MINIMAL

NeedsQuote(field) ==
  \E i \in 1..Len(field) : field[i] \in {",", "\"", CR, LF}

RECURSIVE DoubleQuotes(_)
DoubleQuotes(field) ==
  IF field = <<>> THEN <<>>
  ELSE (IF Head(field) = "\"" THEN <<"\"", "\"">> ELSE <<Head(field)>>)
         \o DoubleQuotes(Tail(field))

Quoted(field) ==
  IF NeedsQuote(field) THEN <<"\"">> \o DoubleQuotes(field) \o <<"\"">>
  ELSE field

RECURSIVE Join(_)
Join(fields) ==
  IF Len(fields) = 0 THEN <<>>
  ELSE IF Len(fields) = 1 THEN Quoted(fields[1])
  ELSE Quoted(fields[1]) \o <<",">> \o Join(Tail(fields))

\* the text one writer.writerow(fields) call hands to csvfile.write
\* (variant: lineterminator='')
WriterowNoTerminator(fields) ==
  IF fields = <<<<>>>> THEN <<"\"", "\"">> ELSE Join(fields)
Writerow(fields) ==
  (IF fields = <<<<>>>> THEN <<"\"", "\"">> ELSE Join(fields)) \o <<CR, LF>>

\* 'CSV generation completed.\n' written in text mode: '\n' becomes os.linesep
DoneText ==
  <<"C", "S", "V", " ", "g", "e", "n", "e", "r", "a", "t", "i", "o", "n", " ",
    "c", "o", "m", "p", "l", "e", "t", "e", "d", ".">> \o os_linesep

Prefix(s, k) == SubSeq(s, 1, k)
Suffix(s, k) == SubSeq(s, k + 1, Len(s))

\* what a run remembers of its start: the marker file as it found it, and
\* the output file the previous run left if that run ended normally
Snapshot(ok) ==
  [prev_ok |-> ok, prev_csv |-> IF ok THEN csv_disk ELSE <<>>,
   done_exists |-> done_exists, done |-> done_disk]

----------------------------------------------------------------------------
\* Initial state: the first run starts in a directory with no marker file
\* and with either no output file or a stale one.

Init ==
  /\ num_rows \in 0..MaxRows
  /\ num_cols \in 0..MaxCols
  /\ os_linesep \in {<<LF>>, <<CR, LF>>}
  /\ pc = "open_csv"
  /\ err = "none"
  /\ row_num = 0
  /\ row = <<>>
  /\ csv_exists \in BOOLEAN
  /\ csv_disk = IF csv_exists THEN <<"o", "l", "d", LF>> ELSE <<>>
  /\ csv_buf = <<>>
  /\ csvfile_open = FALSE
  /\ done_exists = FALSE
  /\ done_disk = <<>>
  /\ done_buf = <<>>
  /\ donefile_open = FALSE
  /\ stdout = <<>>
  /\ run = 1
  /\ at_start = [prev_ok |-> FALSE, prev_csv |-> <<>>,
                 done_exists |-> FALSE, done |-> <<>>]

----------------------------------------------------------------------------
\* The run, statement by statement.  A statement that can raise has a second
\* action for the raise; an exception is never caught, so it ends the run
\* after the enclosing with-block has closed its handle.

config == <<num_rows, num_cols, os_linesep>>
csv_state == <<csv_exists, csv_disk, csv_buf, csvfile_open>>
done_state == <<done_exists, done_disk, done_buf, donefile_open>>
loop_state == <<row_num, row>>
history == <<run, at_start>>

\* csvfile.write(text): the text joins the buffer, and the buffer may hand
\* any number of its leading bytes to the disk
CsvWrite(text) ==
  \E k \in 0..Len(csv_buf \o text) :
    /\ csv_disk' = csv_disk \o Prefix(csv_buf \o text, k)
    /\ csv_buf' = Suffix(csv_buf \o text, k)
    /\ UNCHANGED <<csv_exists, csvfile_open>>

\* an exception leaves the with-block of line 10: close() flushes what it
\* can of the buffer and of the text being written, and releases the handle
\* (variant: no with-block, the handle stays open on an exception)
CsvRaiseLeak(step, text) ==
  /\ pc' = "failed"
  /\ err' = step
  /\ UNCHANGED csv_state
\* (variant: the exception is swallowed and the script goes on to line 17)
CsvRaiseContinue(step, text) ==
  /\ pc' = "print"
  /\ err' = step
  /\ \E k \in 0..Len(csv_buf \o text) :
       csv_disk' = csv_disk \o Prefix(csv_buf \o text, k)
  /\ csv_buf' = <<>>
  /\ csvfile_open' = FALSE
  /\ UNCHANGED csv_exists
CsvRaise(step, text) ==
  /\ pc' = "failed"
  /\ err' = step
  /\ \E k \in 0..Len(csv_buf \o text) :
       csv_disk' = csv_disk \o Prefix(csv_buf \o text, k)
  /\ csv_buf' = <<>>
  /\ csvfile_open' = FALSE
  /\ UNCHANGED csv_exists

\* line 10: open(output_file, 'w', newline='', encoding='utf-8')
\* (variant: mode 'a' instead of 'w')
OpenCsvAppend ==
  /\ pc = "open_csv"
  /\ pc' = "write_header"
  /\ csv_exists' = TRUE
  /\ csv_buf' = <<>>
  /\ csvfile_open' = TRUE
  /\ UNCHANGED <<csv_disk, config, err, loop_state, done_state, stdout, history>>
OpenCsv ==
  /\ pc = "open_csv"
  /\ pc' = "write_header"
  /\ csv_exists' = TRUE
  /\ csv_disk' = <<>>
  /\ csv_buf' = <<>>
  /\ csvfile_open' = TRUE
  /\ UNCHANGED <<config, err, loop_state, done_state, stdout, history>>

OpenCsvFail ==
  /\ pc = "open_csv"
  /\ pc' = "failed"
  /\ err' = "open_csv"
  /\ UNCHANGED <<config, loop_state, csv_state, done_state, stdout, history>>

\* lines 11-12: writer = csv.writer(csvfile); writer.writerow(columns)
WriteHeader ==
  /\ pc = "write_header"
  /\ pc' = "loop"
  /\ CsvWrite(Writerow(columns))
  /\ UNCHANGED <<config, err, loop_state, done_state, stdout, history>>

WriteHeaderFail ==
  /\ pc = "write_header"
  /\ CsvRaise("write_header", Writerow(columns))
  /\ UNCHANGED <<config, loop_state, done_state, stdout, history>>

\* line 13: for row_num in range(1, num_rows + 1)
\* (variants: range(1, num_rows), and a body that runs at least once)
LoopHasNextShort == row_num + 1 < num_rows
LoopHasNextOnceMore == row_num < num_rows \/ row_num = 0
LoopHasNext == row_num < num_rows

\* lines 13-14: the next row_num, and the row built for it
BuildRow ==
  /\ pc = "loop"
  /\ LoopHasNext
  /\ pc' = "write_row"
  /\ row_num' = row_num + 1
  /\ row' = Row(row_num + 1)
  /\ UNCHANGED <<config, err, csv_state, done_state, stdout, history>>

\* line 15: writer.writerow(row)
WriteRow ==
  /\ pc = "write_row"
  /\ pc' = "loop"
  /\ CsvWrite(Writerow(row))
  /\ UNCHANGED <<config, err, loop_state, done_state, stdout, history>>

WriteRowFail ==
  /\ pc = "write_row"
  /\ CsvRaise("write_row", Writerow(row))
  /\ UNCHANGED <<config, loop_state, done_state, stdout, history>>

\* end of the with-block of line 10: the loop is exhausted, close() flushes
\* the buffer and releases the handle
\* (variant: no with-block, the file is never closed nor flushed)
CloseCsvKeepOpen ==
  /\ pc = "loop"
  /\ ~LoopHasNext
  /\ pc' = "print"
  /\ UNCHANGED <<csv_state, config, err, loop_state, done_state, stdout,
                 history>>
CloseCsv ==
  /\ pc = "loop"
  /\ ~LoopHasNext
  /\ pc' = "print"
  /\ csv_disk' = csv_disk \o csv_buf
  /\ csv_buf' = <<>>
  /\ csvfile_open' = FALSE
  /\ UNCHANGED <<csv_exists, config, err, loop_state, done_state, stdout,
                 history>>

CloseCsvFail ==
  /\ pc = "loop"
  /\ ~LoopHasNext
  /\ CsvRaise("close_csv", <<>>)
  /\ UNCHANGED <<config, loop_state, done_state, stdout, history>>

\* line 17: print(...)
PrintMessage ==
  /\ pc = "print"
  /\ pc' = "open_done"
  /\ stdout' = Append(stdout, Message)
  /\ UNCHANGED <<config, err, loop_state, csv_state, done_state, history>>

PrintMessageFail ==
  /\ pc = "print"
  /\ pc' = "failed"
  /\ err' = "print"
  /\ UNCHANGED <<config, loop_state, csv_state, done_state, stdout, history>>

\* line 20: open(f'{output_file}.done', 'w')
OpenDone ==
  /\ pc = "open_done"
  /\ pc' = "write_done"
  /\ done_exists' = TRUE
  /\ done_disk' = <<>>
  /\ done_buf' = <<>>
  /\ donefile_open' = TRUE
  /\ UNCHANGED <<config, err, loop_state, csv_state, stdout, history>>

OpenDoneFail ==
  /\ pc = "open_done"
  /\ pc' = "failed"
  /\ err' = "open_done"
  /\ UNCHANGED <<config, loop_state, csv_state, done_state, stdout, history>>

\* line 21: donefile.write('CSV generation completed.\n'); the short text
\* stays in the buffer until close()
WriteDone ==
  /\ pc = "write_done"
  /\ pc' = "close_done"
  /\ done_buf' = done_buf \o DoneText
  /\ UNCHANGED <<done_exists, done_disk, donefile_open, config, err,
                 loop_state, csv_state, stdout, history>>

\* end of the with-block of line 20, the last statement of the script; the
\* short text reaches the disk in one piece or, when close() raises, maybe
\* not at all
CloseDone ==
  /\ pc = "close_done"
  /\ pc' = "done"
  /\ done_disk' = done_disk \o done_buf
  /\ done_buf' = <<>>
  /\ donefile_open' = FALSE
  /\ UNCHANGED <<done_exists, config, err, loop_state, csv_state, stdout,
                 history>>

CloseDoneFail ==
  /\ pc = "close_done"
  /\ pc' = "failed"
  /\ err' = "close_done"
  /\ \E k \in {0, Len(done_buf)} : done_disk' = done_disk \o Prefix(done_buf, k)
  /\ done_buf' = <<>>
  /\ donefile_open' = FALSE
  /\ UNCHANGED <<done_exists, config, loop_state, csv_state, stdout, history>>

\* the script is run again, with the same lines 4-5, in the directory the
\* previous run left
Restart ==
  /\ pc \in {"done", "failed"}
  /\ run < MaxRuns
  /\ run' = run + 1
  /\ at_start' = Snapshot(pc = "done")
  /\ pc' = "open_csv"
  /\ err' = "none"
  /\ row_num' = 0
  /\ row' = <<>>
  /\ stdout' = <<>>
  /\ UNCHANGED <<config, csv_state, done_state>>

Next ==
  \/ OpenCsv \/ OpenCsvFail
  \/ WriteHeader \/ WriteHeaderFail
  \/ BuildRow
  \/ WriteRow \/ WriteRowFail
  \/ CloseCsv \/ CloseCsvFail
  \/ PrintMessage \/ PrintMessageFail
  \/ OpenDone \/ OpenDoneFail
  \/ WriteDone
  \/ CloseDone \/ CloseDoneFail
  \/ Restart

Spec == Init /\ [][Next]_vars

\* One run of the script on its own: execution is sequential, so the next
\* statement is always executed.
RunStep ==
  \/ OpenCsv \/ OpenCsvFail
  \/ WriteHeader \/ WriteHeaderFail
  \/ BuildRow
  \/ WriteRow \/ WriteRowFail
  \/ CloseCsv \/ CloseCsvFail
  \/ PrintMessage \/ PrintMessageFail
  \/ OpenDone \/ OpenDoneFail
  \/ WriteDone
  \/ CloseDone \/ CloseDoneFail

FairSpec == Init /\ [][RunStep]_vars /\ WF_vars(RunStep)

----------------------------------------------------------------------------
\* What a reader of the files sees (csv.reader on text without quotes)

RECURSIVE SplitFrom(_, _, _, _)
SplitFrom(s, i, cur, acc) ==
  IF i > Len(s) THEN [lines |-> acc, rest |-> cur]
  ELSE IF s[i] = CR /\ i < Len(s) /\ s[i + 1] = LF
    THEN SplitFrom(s, i + 2, <<>>, Append(acc, cur))
    ELSE SplitFrom(s, i + 1, Append(cur, s[i]), acc)

\* the terminated lines of s, and the unterminated text after the last one
Lines(s) == SplitFrom(s, 1, <<>>, <<>>).lines
Rest(s) == SplitFrom(s, 1, <<>>, <<>>).rest

RECURSIVE FieldsFrom(_, _, _, _)
FieldsFrom(line, i, cur, acc) ==
  IF i > Len(line) THEN Append(acc, cur)
  ELSE IF line[i] = ","
    THEN FieldsFrom(line, i + 1, <<>>, Append(acc, cur))
    ELSE FieldsFrom(line, i + 1, Append(cur, line[i]), acc)

\* the fields of one line; an empty line is a record of no fields
Fields(line) == IF line = <<>> THEN <<>> ELSE FieldsFrom(line, 1, <<>>, <<>>)

HeaderFields == [c \in 1..num_cols |-> <<"c", "o", "l">> \o Str(c)]
DataFields(r) ==
  [c \in 1..num_cols |-> <<"d", "a", "t", "a", "_">> \o Str(c) \o <<"_">> \o Str(r)]

\* text holds the header and the data rows 1..n, all terminated, nothing else
HoldsRows(text, n) ==
  /\ Rest(text) = <<>>
  /\ Len(Lines(text)) = n + 1
  /\ Fields(Lines(text)[1]) = HeaderFields
  /\ \A r \in 1..n : Fields(Lines(text)[r + 1]) = DataFields(r)

\* the output file is closed and holds the header plus all num_rows rows
CsvComplete == csv_exists /\ ~csvfile_open /\ HoldsRows(csv_disk, num_rows)

MarkerLine ==
  <<"C", "S", "V", " ", "g", "e", "n", "e", "r", "a", "t", "i", "o", "n", " ",
    "c", "o", "m", "p", "l", "e", "t", "e", "d", ".">> \o os_linesep

CsvErrors == {"open_csv", "write_header", "write_row", "close_csv"}
Ended == pc \in {"done", "failed"}

----------------------------------------------------------------------------
C2_LineCountAndHeader ==
  pc = "done" =>
    /\ Rest(csv_disk) = <<>>
    /\ Len(Lines(csv_disk)) = num_rows + 1
    /\ Len(Fields(Lines(csv_disk)[1])) = num_cols
    /\ \A c \in 1..num_cols :
         Fields(Lines(csv_disk)[1])[c] = <<"c", "o", "l">> \o Str(c)

C2_Witness == pc = "done" /\ num_rows >= 2 /\ num_cols >= 2

\* C3: after a run that completes, field c of line r + 1 of the output file
\* is data_<c>_<r> for every r in 1..num_rows and c in 1..num_cols, so the
\* data rows are in increasing order of r.
C3_CellFormat ==
  pc = "done" =>
    /\ Len(Lines(csv_disk)) >= num_rows + 1
    /\ \A r \in 1..num_rows :
         /\ Len(Fields(Lines(csv_disk)[r + 1])) = num_cols
         /\ \A c \in 1..num_cols :
              Fields(Lines(csv_disk)[r + 1])[c]
                = <<"d", "a", "t", "a", "_">> \o Str(c) \o <<"_">> \o Str(r)

C3_Witness == pc = "done" /\ num_rows >= 3 /\ num_cols >= 2

\* C4 (as claimed): in every state of every sequence of runs, if the marker
\* file exists then the output file is closed and holds the header plus all
\* num_rows complete data rows.
C4_MarkerIsCompletionSignal == done_exists => CsvComplete

\* C5: a run that completes right after a run that completed leaves both
\* files exactly as that run left them, and whatever was on disk before, a
\* completed run leaves the header and rows of num_rows and num_cols and the
\* confirmation line.
C5_Idempotent ==
  pc = "done" =>
    /\ at_start.prev_ok =>
         csv_disk = at_start.prev_csv /\ done_disk = at_start.done
    /\ HoldsRows(csv_disk, num_rows)
    /\ done_disk = MarkerLine

C5_Witness ==
  pc = "done" /\ run = 2 /\ at_start.prev_ok /\ num_rows >= 1 /\ num_cols >= 1

\* the header line followed by the lines of the data rows 1..n
RECURSIVE TextUpTo(_)
TextUpTo(n) ==
  IF n = 0 THEN Writerow(HeaderFields)
  ELSE TextUpTo(n - 1) \o Writerow(DataFields(n))

\* C6: once opening the output file, writing the header, writing a row or
\* closing the output file has raised, the run is over: the output file, if
\* it was opened, stays on disk holding a prefix of the text the run had
\* written up to the failing statement, the marker file is as the run found
\* it, and nothing changes any file until another run is started.
C6_FailedState ==
  err \in CsvErrors =>
    /\ pc = "failed"
    /\ ~csvfile_open /\ ~donefile_open
    /\ done_exists = at_start.done_exists /\ done_disk = at_start.done
    /\ err # "open_csv" =>
         /\ csv_exists
         /\ Len(csv_disk) <= Len(TextUpTo(row_num))
         /\ csv_disk = Prefix(TextUpTo(row_num), Len(csv_disk))

\* C6: the failed state is as described in every reachable state, no step
\* of a failed run changes a file, and a failed open leaves both files alone.
C6_NoRetryNoCleanup ==
  /\ [](C6_FailedState)
  /\ [][pc = "failed" => UNCHANGED <<csv_state, done_state>>]_vars
  /\ [][err = "none" /\ err' = "open_csv" => UNCHANGED <<csv_state, done_state>>]_vars

C6_Witness ==
  /\ pc = "failed" /\ err = "write_row" /\ row_num = 2
  /\ Len(Lines(csv_disk)) = 2 /\ Rest(csv_disk) # <<>>

\* C7: a completed run with num_rows = 0 has executed the loop body zero
\* times, leaves an output file holding the header line only, and leaves
\* the marker file holding the confirmation line.
C7_ZeroRows ==
  pc = "done" /\ num_rows = 0 =>
    /\ row_num = 0 /\ row = <<>>
    /\ csv_exists /\ Rest(csv_disk) = <<>>
    /\ Len(Lines(csv_disk)) = 1
    /\ Fields(Lines(csv_disk)[1]) = HeaderFields
    /\ done_exists /\ done_disk = MarkerLine

C7_Witness == pc = "done" /\ num_rows = 0 /\ num_cols >= 2

\* C8 (as claimed): a run prints at most one line, a printed line means that
\* the output file and the marker file are both complete on disk and closed,
\* and a run that failed at a file operation has printed nothing.
C8_MessageIsLastStep ==
  /\ Len(stdout) <= 1
  /\ stdout # <<>> =>
       /\ CsvComplete
       /\ done_exists /\ ~donefile_open /\ done_disk = MarkerLine
  /\ pc = "failed" => stdout = <<>>

\* C8 (amended): the message is printed after the output file is closed and
\* before the marker file is opened.  A run prints at most one line, and
\* exactly one once it has reached the opening of the marker file; a printed
\* line means that the output file is complete on disk and closed; a run
\* that failed at an operation on the output file or at the print has
\* printed nothing, and a run that failed at an operation on the marker file
\* has printed the line.
C8_MessageAfterCsvBeforeMarker ==
  /\ Len(stdout) <= 1
  /\ stdout # <<>> => stdout = <<Message>> /\ CsvComplete /\ err \notin CsvErrors
  /\ stdout # <<>> <=>
       \/ pc \in {"open_done", "write_done", "close_done", "done"}
       \/ pc = "failed" /\ err \in {"open_done", "close_done"}
  /\ pc = "print" => ~donefile_open

C8_Witness ==
  /\ pc = "open_done" /\ stdout = <<Message>> /\ ~done_exists
  /\ num_rows >= 1 /\ num_cols >= 1

\* C9: the two handles are never open together, the output file's handle is
\* closed from the end of its with-block on, and no handle is open once the
\* run has ended, normally or by an exception.
C9_OneHandle ==
  /\ ~(csvfile_open /\ donefile_open)
  /\ csvfile_open <=> pc \in {"write_header", "loop", "write_row"}
  /\ donefile_open <=> pc \in {"write_done", "close_done"}
  /\ Ended => ~csvfile_open /\ ~donefile_open /\ csv_buf = <<>> /\ done_buf = <<>>

C9_Witness ==
  pc = "failed" /\ err = "write_row" /\ ~csvfile_open /\ row_num = 1

\* C10: while the run has not failed, the number of data rows handed to the
\* writer is row_num - 1 when a row has been built and not yet written and
\* row_num otherwise, the built row is the row of row_num, row_num never
\* exceeds num_rows, the loop is left with exactly num_rows rows written,
\* and the run ends.
C10_RowsWritten == Len(Lines(csv_disk \o csv_buf)) - 1

C10_Streaming ==
  err = "none" /\ pc \notin {"open_csv", "write_header"} =>
    /\ row_num \in 0..num_rows
    /\ pc = "write_row" =>
         /\ row_num = C10_RowsWritten + 1
         /\ Len(row) = num_cols
         /\ \A c \in 1..num_cols : row[c] = DataFields(row_num)[c]
    /\ pc # "write_row" => row_num = C10_RowsWritten
    /\ pc # "write_row" /\ pc # "loop" => C10_RowsWritten = num_rows
    /\ Rest(csv_disk \o csv_buf) = <<>>

\* C10: rows are streamed one at a time in every state of a run, and the
\* run eventually ends.
C10_StreamsAndTerminates == [](C10_Streaming) /\ <>(Ended)

C10_Witness ==
  /\ pc = "write_row" /\ err = "none" /\ row_num = 2 /\ num_rows >= 3
  /\ C10_RowsWritten = 1

====
